---- MODULE Spec2Model ----
(***************************************************************************)
(* The request-handling core of the koa application (lib/application.js):  *)
(* the composed middleware pipeline, handleRequest's settlement chain,     *)
(* the transport-completion callback, the response helper respond(), the   *)
(* default error reporter onerror(), the registration of middleware with   *)
(* use(), and createContext() with the objects it derives from the         *)
(* application's templates.                                                *)
(***************************************************************************)
EXTENDS Integers, Sequences, FiniteSets, TLC

\* ------------------------------------------------------------------ bounds
\* the longest middleware list explored
MaxHandlers == 2
\* how many times one handler invocation may call its continuation
MaxCalls == 2

\* ------------------------------------------------------------- value sets
NULL == "null"
MultipleNextCallError == "next() called multiple times"
TransportError == "ECONNRESET"
StringifyError == "TypeError: Converting circular structure to JSON"
\* the errors a handler throws
HandlerErrors == {"E1", "E2"}

\* bodies: null, a string, a buffer, a stream, a JSON-serializable object
\* (a sequence of <<key, integer>> pairs) and an object JSON.stringify rejects
StrBody(s) == [kind |-> "string", val |-> s]
BufBody(s) == [kind |-> "buffer", val |-> s]
StreamBody == [kind |-> "stream", val |-> ""]
ObjBody(ps) == [kind |-> "object", val |-> ps]
CircularBody == [kind |-> "circular", val |-> ""]
NullBody == [kind |-> "null", val |-> ""]

\* the functions given to use(): plain (async) functions and generator
\* functions, with what koa-convert makes of the latter
Fn(i) == [kind |-> "function", id |-> i, converted |-> FALSE]
Gen(i) == [kind |-> "generator", id |-> i, converted |-> FALSE]
convert(fn) == [kind |-> "function", id |-> fn.id, converted |-> TRUE]
\* a value that is not a function
NotFn(kind) == [kind |-> kind, id |-> 0, converted |-> FALSE]

VARIABLES
  middleware,  \* this.middleware: the registered handlers, in order
  rq,          \* one record per request: its context, transport and pipeline
  before,      \* per request: the context as it was when respond was last entered
  app,         \* the application: silent, and its three templates
  heap,        \* the objects there are: each its prototype and own properties
  stderr,      \* what console.error has written, one entry per call
  calls        \* the calls made on the application, each with its outcome

\* the application but for its middleware list
appVars == <<app, heap, stderr, calls>>
vars == <<middleware, rq, before, appVars>>

\* ------------------------------------------------- collaborators of respond
\* statuses.empty
StatusesEmpty == {204, 205, 304}

\* statuses[code]: the reason phrase, "" when the code has none
StatusesMessage(code) ==
  CASE code = 200 -> "OK"
    [] code = 204 -> "No Content"
    [] code = 205 -> "Reset Content"
    [] code = 304 -> "Not Modified"
    [] code = 404 -> "Not Found"
    [] code = 500 -> "Internal Server Error"
    [] OTHER -> ""

\* String(code)
RECURSIVE DigitsOf(_)
DigitsOf(k) ==
  IF k < 10 THEN SubSeq("0123456789", k + 1, k + 1)
  ELSE DigitsOf(k \div 10) \o SubSeq("0123456789", (k % 10) + 1, (k % 10) + 1)
StringOf(code) == DigitsOf(code)

\* Buffer.byteLength of an ASCII text
ByteLength(s) == Len(s)

\* JSON.stringify of a flat object given as <<key, integer>> pairs
RECURSIVE JSONMembers(_)
JSONMembers(ps) ==
  IF ps = <<>> THEN ""
  ELSE "\"" \o ps[1][1] \o "\":" \o DigitsOf(ps[1][2])
       \o (IF Len(ps) > 1 THEN "," ELSE "") \o JSONMembers(Tail(ps))
JSONStringify(b) == "{" \o JSONMembers(b.val) \o "}"

\* ctx.writable (response.writable): not ended, not finished, socket writable
Writable(c) == ~c.ended /\ ~c.finished /\ c.socket = "open"

\* ctx.message (response.message): res.statusMessage || statuses[status]
Message(c) == IF c.statusMessage # "" THEN c.statusMessage ELSE StatusesMessage(c.status)

Has(c, h) == h \in DOMAIN c.headers
\* response.remove(field): the header is stripped
Remove(c, h) ==
  [c EXCEPT !.headers = [x \in (DOMAIN c.headers) \ {h} |-> c.headers[x]]]
SetHeader(c, h, v) ==
  [c EXCEPT !.headers = [x \in (DOMAIN c.headers) \cup {h} |-> IF x = h THEN v ELSE c.headers[x]]]

\* ctx.length = n (response.length setter)
SetLength(c, len) == SetHeader(c, "Content-Length", len)
\* ctx.type = 'text'
SetTypeText(c) == SetHeader(c, "Content-Type", "text/plain; charset=utf-8")

\* response.length getter when no Content-Length header is present: the
\* length the response view reports for the body, -1 standing for a report
\* that is not a whole number (a body whose length is not known)
ResponseLength(c) ==
  CASE c.body.kind \in {"null", "stream"} -> -1
    [] c.body.kind \in {"string", "buffer"} ->
         IF c.body.kind = "string" /\ c.body.val = "" THEN -1 ELSE ByteLength(c.body.val)
    [] c.body.kind = "object" -> ByteLength(JSONStringify(c.body))
    [] OTHER -> -1

\* res.end(payload): NULL payload for a bare res.end()
ResEnd(c, payload) ==
  [c EXCEPT !.ended = TRUE, !.headersSent = TRUE, !.endCalls = @ + 1,
            !.payload = payload, !.log = Append(@, "end")]

\* body.pipe(res)
PipeBody(c) == [c EXCEPT !.piped = TRUE]

\* ctx.body = null (response.body setter with a null value)
SetBodyNull(c) ==
  LET c1 == [c EXCEPT !.body = NullBody, !.explicitNullBody = TRUE,
                      !.status = IF c.status \in StatusesEmpty THEN c.status ELSE 204]
  IN IF c.headersSent THEN c1
     ELSE Remove(Remove(Remove(c1, "Content-Type"), "Content-Length"),
                 "Transfer-Encoding")

\* --------------------------------------------------------------- respond
\* does respond(ctx) throw: JSON.stringify of a body it cannot serialize,
\* in the json branch
RespondThrows(c) ==
  /\ c.respond /\ Writable(c)
  /\ c.status \notin StatusesEmpty
  /\ c.method # "HEAD"
  /\ c.body.kind = "circular"

\* ctx.body = null; return res.end()
respondEmpty(c) == ResEnd(SetBodyNull(c), NULL)

\* the HEAD branch with the length set whether or not a Content-Length header
\* is present
mutRespondHeadOverwrites(c) ==
  IF ~c.headersSent
  THEN IF ResponseLength(c) >= 0
       THEN ResEnd(SetLength(c, ResponseLength(c)), NULL)
       ELSE ResEnd(c, NULL)
  ELSE ResEnd(c, NULL)

\* the HEAD branch: ctx.length from the response's length when the headers
\* are unsent and carry no Content-Length, then res.end()
respondHead(c) ==
  IF ~c.headersSent /\ ~Has(c, "Content-Length")
  THEN IF ResponseLength(c) >= 0
       THEN ResEnd(SetLength(c, ResponseLength(c)), NULL)
       ELSE ResEnd(c, NULL)
  ELSE ResEnd(c, NULL)

\* the null-body branch with the status message on every HTTP version
mutRespondStatusBodyAnyVersion(c) ==
  IF c.explicitNullBody
  THEN ResEnd(Remove(Remove(c, "Content-Type"), "Transfer-Encoding"), NULL)
  ELSE LET text == IF Message(c) # "" THEN Message(c) ELSE StringOf(c.status)
       IN IF ~c.headersSent
          THEN ResEnd(SetLength(SetTypeText(c), ByteLength(text)), text)
          ELSE ResEnd(c, text)

\* the null-body branch: an explicit null ends bare, any other gets the
\* status as its text
respondStatusBody(c) ==
  IF c.explicitNullBody
  THEN ResEnd(Remove(Remove(c, "Content-Type"), "Transfer-Encoding"), NULL)
  ELSE LET text == IF c.httpVersionMajor >= 2 THEN StringOf(c.status)
                   ELSE IF Message(c) # "" THEN Message(c) ELSE StringOf(c.status)
       IN IF ~c.headersSent
          THEN ResEnd(SetLength(SetTypeText(c), ByteLength(text)), text)
          ELSE ResEnd(c, text)

\* the body branches with the stream test after the json fallback
mutRespondShapeNoStream(c) ==
  IF c.body.kind = "buffer" THEN ResEnd(c, c.body.val)
  ELSE IF c.body.kind = "string" THEN ResEnd(c, c.body.val)
  ELSE IF c.body.kind = "circular" THEN c
  ELSE LET text == IF c.body.kind = "stream" THEN "{}" ELSE JSONStringify(c.body)
       IN IF ~c.headersSent
          THEN ResEnd(SetLength(c, ByteLength(text)), text)
          ELSE ResEnd(c, text)

\* the body branches: buffer, string, stream, then json
respondShape(c) ==
  IF c.body.kind = "buffer" THEN ResEnd(c, c.body.val)
  ELSE IF c.body.kind = "string" THEN ResEnd(c, c.body.val)
  ELSE IF c.body.kind = "stream" THEN PipeBody(c)
  ELSE IF c.body.kind = "circular" THEN c
  ELSE LET text == JSONStringify(c.body)
       IN IF ~c.headersSent
          THEN ResEnd(SetLength(c, ByteLength(text)), text)
          ELSE ResEnd(c, text)

\* the decision tree with the method tested before the status
mutRespondBodyHeadFirst(c) ==
  IF c.method = "HEAD" THEN respondHead(c)
  ELSE IF c.status \in StatusesEmpty THEN respondEmpty(c)
  ELSE IF c.body.kind = "null" THEN respondStatusBody(c)
  ELSE respondShape(c)

\* respond(ctx) past its two guards: the decision tree over status, method
\* and body
respondBody(c) ==
  IF c.status \in StatusesEmpty THEN respondEmpty(c)
  ELSE IF c.method = "HEAD" THEN respondHead(c)
  ELSE IF c.body.kind = "null" THEN respondStatusBody(c)
  ELSE respondShape(c)

\* respond without its writable guard
mutRespondIgnoresWritable(c) ==
  IF ~c.respond THEN c ELSE respondBody(c)

\* the state respond(ctx) leaves behind
respond(c) ==
  IF ~c.respond THEN c
  ELSE IF ~Writable(c) THEN c
  ELSE respondBody(c)

\* ------------------------------------------------------- createContext
\* the frame of handler k before it is entered.  st: idle, run (its code has
\* the control or is suspended on something of its own), wait (suspended on
\* the promise a next() call returned), hung, done (resolved), fail
\* (rejected with err).  pend: the promise its latest next() call returned.
IdleFrame == [st |-> "idle", entries |-> 0, calls |-> 0, detached |-> FALSE,
              pend |-> "none", post |-> FALSE, caught |-> FALSE, err |-> NULL]

\* the context, the transport response and the pipeline closure of one request
NewRequest(n, method, major) ==
  [ \* transport request
    method |-> method, httpVersionMajor |-> major,
    \* response view and transport response
    status |-> 200, statusMessage |-> "", body |-> NullBody,
    explicitNullBody |-> FALSE, respond |-> TRUE, headers |-> <<>>,
    headersSent |-> FALSE, ended |-> FALSE, finished |-> FALSE, socket |-> "open",
    endCalls |-> 0, payload |-> NULL, piped |-> FALSE,
    \* handleRequest
    started |-> FALSE, onFinished |-> "none", chain |-> "pending",
    respondCalls |-> 0, respondThrew |-> FALSE,
    onerrorArgs |-> <<>>, finishedArgs |-> <<>>, chainArgs |-> <<>>,
    \* the composed function's closure: index and one frame per handler
    index |-> -1, fr |-> [k \in 0 .. n - 1 |-> IdleFrame],
    \* the handlers' writes, and what handleRequest and respond did, in order
    touched |-> FALSE, wrote |-> FALSE, log |-> <<>> ]

\* ----------------------------------------------------------- ctx.onerror
\* ctx.onerror(err): ignores a null error; otherwise answers with the error's
\* status unless the headers are sent or the response is not writable
ctxOnerror(c, err) ==
  LET c1 == [c EXCEPT !.onerrorArgs = Append(@, err)]
  IN IF err = NULL THEN c1
     ELSE IF c1.headersSent \/ ~Writable(c1) THEN c1
     ELSE ResEnd(SetLength(SetTypeText(
            [c1 EXCEPT !.status = 500, !.headers = <<>>]),
            ByteLength(StatusesMessage(500))), StatusesMessage(500))

\* --------------------------------------------------------------- compose
\* dispatch without the guard on index: a repeated call enters the handler again
mutDispatchNoGuard(c, i) ==
  LET c1 == [c EXCEPT !.index = i]
  IN IF i = Len(middleware) THEN [c |-> c1, p |-> "end"]
     ELSE [c |-> [c1 EXCEPT !.fr[i] = [IdleFrame EXCEPT !.st = "run",
                                         !.entries = c.fr[i].entries + 1]],
           p |-> "next"]

\* dispatch that takes the last handler for the end of the list
mutDispatchSkip(c, i) ==
  IF i <= c.index THEN [c |-> c, p |-> "multi"]
  ELSE IF i >= Len(middleware) - 1
       THEN [c |-> [c EXCEPT !.index = i], p |-> "end"]
       ELSE [c |-> [c EXCEPT !.index = i, !.fr[i].st = "run",
                             !.fr[i].entries = @ + 1],
             p |-> "next"]

\* dispatch that enters handler i + 1 along with handler i, next() called or not
mutDispatchRunsOn(c, i) ==
  IF i <= c.index THEN [c |-> c, p |-> "multi"]
  ELSE IF i = Len(middleware) THEN [c |-> [c EXCEPT !.index = i], p |-> "end"]
  ELSE IF i + 1 < Len(middleware)
       THEN [c |-> [c EXCEPT !.index = i + 1,
                             !.fr[i].st = "run", !.fr[i].entries = @ + 1,
                             !.fr[i + 1].st = "run", !.fr[i + 1].entries = @ + 1],
             p |-> "next"]
       ELSE [c |-> [c EXCEPT !.index = i, !.fr[i].st = "run",
                             !.fr[i].entries = @ + 1],
             p |-> "next"]

\* dispatch(i) of the composed function: the guard on index, then either the
\* completion of the whole list (i = length, no trailing next) or the entry
\* into handler i.  p names the promise returned to the caller: "multi" is
\* rejected with the multiple-call error, "end" is resolved, "next" is the
\* promise of handler i.
dispatch(c, i) ==
  IF i <= c.index THEN [c |-> c, p |-> "multi"]
  ELSE LET c1 == [c EXCEPT !.index = i]
       IN IF i = Len(middleware) THEN [c |-> c1, p |-> "end"]
          ELSE [c |-> [c1 EXCEPT !.fr[i].st = "run", !.fr[i].entries = @ + 1],
                p |-> "next"]

\* the composed pipeline's promise: dispatch(0)'s outcome
PipelineState(c) ==
  IF ~c.started THEN "none"
  ELSE IF Len(middleware) = 0 THEN "resolved"
  ELSE CASE c.fr[0].st = "done" -> "resolved"
         [] c.fr[0].st = "fail" -> "rejected"
         [] OTHER -> "pending"
PipelineError(c) == c.fr[0].err

\* the promise handler k awaits: "pending", "resolved" or "rejected"
AwaitedState(c, k) ==
  CASE c.fr[k].pend = "end" -> "resolved"
    [] c.fr[k].pend = "multi" -> "rejected"
    [] c.fr[k].pend = "next" ->
         (CASE c.fr[k + 1].st = "done" -> "resolved"
            [] c.fr[k + 1].st = "fail" -> "rejected"
            [] OTHER -> "pending")
    [] OTHER -> "pending"
AwaitedError(c, k) ==
  IF c.fr[k].pend = "multi" THEN MultipleNextCallError ELSE c.fr[k + 1].err

\* --------------------------------------------------------- handleRequest
\* const onerror = err => ctx.onerror(err)
onerror(c, err) == ctxOnerror(c, err)

\* const handleResponse = () => respond(ctx)
handleResponse(c) ==
  respond([c EXCEPT !.respondCalls = @ + 1, !.respondThrew = RespondThrows(c),
                    !.log = Append(@, "respond")])

\* onFinished(res, onerror): the callback is armed
registerOnFinished(c) ==
  [c EXCEPT !.onFinished = "armed", !.log = Append(@, "onFinished")]

\* a completion callback that is not disarmed by its first run
mutFireOnEveryEvent(c, err) ==
  IF c.onFinished # "none"
  THEN onerror([c EXCEPT !.onFinished = "fired", !.finishedArgs = Append(@, err),
                         !.log = Append(@, "callback")], err)
  ELSE c

\* the armed callback runs once, on the first of finish, close and error
fireOnFinished(c, err) ==
  IF c.onFinished = "armed"
  THEN onerror([c EXCEPT !.onFinished = "fired", !.finishedArgs = Append(@, err),
                         !.log = Append(@, "callback")], err)
  ELSE c

\* handleRequest without res.statusCode = 404
mutHandleRequestNoDefault(c) ==
  dispatch([registerOnFinished(c) EXCEPT !.started = TRUE,
                                         !.log = Append(@, "fnMiddleware")], 0).c

\* handleRequest without onFinished(res, onerror)
mutHandleRequestNoOnFinished(c) ==
  dispatch([c EXCEPT !.status = 404, !.started = TRUE,
                     !.log = Append(Append(@, "status404"), "fnMiddleware")], 0).c

\* handleRequest that calls respond without waiting for the pipeline
mutHandleRequestEager(c) ==
  LET c1 == [c EXCEPT !.status = 404, !.log = Append(@, "status404")]
      c2 == registerOnFinished(c1)
      c3 == [c2 EXCEPT !.started = TRUE, !.log = Append(@, "fnMiddleware")]
  IN handleResponse(dispatch(c3, 0).c)

\* handleRequest up to the return of fnMiddleware(ctx): the default status,
\* the completion callback, then dispatch(0) and with it the entry into the
\* first handler
handleRequest(c) ==
  LET c1 == [c EXCEPT !.status = 404, !.log = Append(@, "status404")]
      c2 == registerOnFinished(c1)
      c3 == [c2 EXCEPT !.started = TRUE, !.log = Append(@, "fnMiddleware")]
  IN dispatch(c3, 0).c

\* onerror as the rejection handler of .catch(onerror)
chainOnerror(c, err) == onerror([c EXCEPT !.chainArgs = Append(@, err)], err)

\* the chain without .catch(onerror)
mutSettleNoCatch(c) ==
  LET c0 == [c EXCEPT !.chain = "settled"]
  IN IF PipelineState(c) = "resolved" THEN handleResponse(c0) ELSE c0

\* the reaction of .catch(onerror) to what handleResponse threw: it runs in a
\* later turn than handleResponse
settleCatch(c) == chainOnerror([c EXCEPT !.chain = "settled"], StringifyError)

\* the chain as .catch(onerror).then(handleResponse)
mutSettleAlwaysResponds(c) ==
  LET c0 == [c EXCEPT !.chain = "settled"]
  IN IF PipelineState(c) = "resolved"
     THEN IF RespondThrows(c0)
          THEN handleResponse([c EXCEPT !.chain = "threw"])
          ELSE handleResponse(c0)
     ELSE handleResponse(chainOnerror(c0, PipelineError(c0)))

\* .then(handleResponse).catch(onerror), run once the pipeline has settled:
\* handleResponse for a resolved pipeline, onerror for a rejected one.  When
\* handleResponse throws, the chain is left at "threw": the catch receives
\* that too, one turn later (settleCatch)
settle(c) ==
  LET c0 == [c EXCEPT !.chain = "settled"]
  IN IF PipelineState(c) = "resolved"
     THEN IF RespondThrows(c0)
          THEN handleResponse([c EXCEPT !.chain = "threw"])
          ELSE handleResponse(c0)
     ELSE chainOnerror(c0, PipelineError(c0))

\* ------------------------------------------------------- the application
\* objects are numbered in the order of their creation, 0 being no object
\* (the end of a prototype chain); a property holds a reference to an object
\* or a plain value
Ref(o) == [ref |-> o, val |-> ""]
Val(v) == [ref |-> 0, val |-> v]
Undefined == Val("undefined")
ObjectCreate(h, proto) == Append(h, [proto |-> proto, own |-> <<>>])
\* o[p] = v: an own data property
SetOwn(h, o, p, v) ==
  [h EXCEPT ![o].own = [x \in (DOMAIN h[o].own) \cup {p} |->
                          IF x = p THEN v ELSE h[o].own[x]]]
\* o[p]: the own property, or else the prototype's
RECURSIVE GetProp(_, _, _)
GetProp(h, o, p) ==
  IF o = 0 THEN Undefined
  ELSE IF p \in DOMAIN h[o].own THEN h[o].own[p]
  ELSE GetProp(h, h[o].proto, p)

\* the exports of ./context, ./request and ./response, and the application
\* itself
ContextModule == 1
RequestModule == 2
ResponseModule == 3
AppObject == 4
\* the heap and the application as the constructor leaves them: the three
\* templates derive from the three modules, and silent is not set
NewHeap ==
  LET h0 == ObjectCreate(ObjectCreate(ObjectCreate(ObjectCreate(<<>>, 0), 0), 0), 0)
  IN ObjectCreate(ObjectCreate(ObjectCreate(h0, ContextModule), RequestModule),
                  ResponseModule)
NewApp ==
  [silent |-> FALSE, context |-> 5, request |-> 6, response |-> 7,
   errorListeners |-> <<>>]
InitApp == app = NewApp /\ heap = NewHeap /\ stderr = <<>> /\ calls = <<>>

\* createContext that hands out the application's own request and response
\* templates
mutCreateContextSharesViews(h, a, conn) ==
  LET context == Len(h) + 1
      request == a.request
      response == a.response
      state == Len(h) + 2
      h1 == ObjectCreate(h, a.context)
      h2 == SetOwn(SetOwn(h1, context, "request", Ref(request)),
                   context, "response", Ref(response))
      h3 == SetOwn(SetOwn(SetOwn(h2, context, "app", Ref(AppObject)),
                          request, "app", Ref(AppObject)), response, "app", Ref(AppObject))
      h4 == SetOwn(SetOwn(SetOwn(h3, context, "req", Val(conn.req)),
                          request, "req", Val(conn.req)), response, "req", Val(conn.req))
      h5 == SetOwn(SetOwn(SetOwn(h4, context, "res", Val(conn.res)),
                          request, "res", Val(conn.res)), response, "res", Val(conn.res))
      h6 == SetOwn(SetOwn(h5, request, "ctx", Ref(context)), response, "ctx", Ref(context))
      h7 == SetOwn(SetOwn(h6, request, "response", Ref(response)),
                   response, "request", Ref(request))
      h8 == SetOwn(SetOwn(h7, context, "originalUrl", Val(conn.url)),
                   request, "originalUrl", Val(conn.url))
      h9 == SetOwn(ObjectCreate(h8, 0), context, "state", Ref(state))
  IN [heap |-> h9, context |-> context, request |-> request,
      response |-> response, state |-> state]

\* createContext that copies the context template's properties into the new
\* context and derives it from nothing
mutCreateContextCopies(h, a, conn) ==
  LET context == Len(h) + 1
      request == Len(h) + 2
      response == Len(h) + 3
      state == Len(h) + 4
      h0 == Append(h, [proto |-> 0, own |-> h[a.context].own])
      h1 == ObjectCreate(ObjectCreate(h0, a.request), a.response)
      h2 == SetOwn(SetOwn(h1, context, "request", Ref(request)),
                   context, "response", Ref(response))
      h3 == SetOwn(SetOwn(SetOwn(h2, context, "app", Ref(AppObject)),
                          request, "app", Ref(AppObject)), response, "app", Ref(AppObject))
      h4 == SetOwn(SetOwn(SetOwn(h3, context, "req", Val(conn.req)),
                          request, "req", Val(conn.req)), response, "req", Val(conn.req))
      h5 == SetOwn(SetOwn(SetOwn(h4, context, "res", Val(conn.res)),
                          request, "res", Val(conn.res)), response, "res", Val(conn.res))
      h6 == SetOwn(SetOwn(h5, request, "ctx", Ref(context)), response, "ctx", Ref(context))
      h7 == SetOwn(SetOwn(h6, request, "response", Ref(response)),
                   response, "request", Ref(request))
      h8 == SetOwn(SetOwn(h7, context, "originalUrl", Val(conn.url)),
                   request, "originalUrl", Val(conn.url))
      h9 == SetOwn(ObjectCreate(h8, 0), context, "state", Ref(state))
  IN [heap |-> h9, context |-> context, request |-> request,
      response |-> response, state |-> state]

\* createContext(req, res): three objects derived from the application's
\* templates, their links to each other, to the application and to the
\* transport's objects, the original url, and a fresh state object
createContext(h, a, conn) ==
  LET context == Len(h) + 1
      request == Len(h) + 2
      response == Len(h) + 3
      state == Len(h) + 4
      h1 == ObjectCreate(ObjectCreate(ObjectCreate(h, a.context), a.request), a.response)
      h2 == SetOwn(SetOwn(h1, context, "request", Ref(request)),
                   context, "response", Ref(response))
      h3 == SetOwn(SetOwn(SetOwn(h2, context, "app", Ref(AppObject)),
                          request, "app", Ref(AppObject)), response, "app", Ref(AppObject))
      h4 == SetOwn(SetOwn(SetOwn(h3, context, "req", Val(conn.req)),
                          request, "req", Val(conn.req)), response, "req", Val(conn.req))
      h5 == SetOwn(SetOwn(SetOwn(h4, context, "res", Val(conn.res)),
                          request, "res", Val(conn.res)), response, "res", Val(conn.res))
      h6 == SetOwn(SetOwn(h5, request, "ctx", Ref(context)), response, "ctx", Ref(context))
      h7 == SetOwn(SetOwn(h6, request, "response", Ref(response)),
                   response, "request", Ref(request))
      h8 == SetOwn(SetOwn(h7, context, "originalUrl", Val(conn.url)),
                   request, "originalUrl", Val(conn.url))
      h9 == SetOwn(ObjectCreate(h8, 0), context, "state", Ref(state))
  IN [heap |-> h9, context |-> context, request |-> request,
      response |-> response, state |-> state]

\* the application's own onerror as an 'error' listener
DefaultReporter == "onerror"
\* this.listenerCount('error') and this.on('error', fn)
listenerCount(a) == Len(a.errorListeners)
on(a, fn) == [a EXCEPT !.errorListeners = Append(@, fn)]

\* callback that registers onerror without looking at the listeners there are
mutCallbackAlwaysRegisters(a) == on(a, DefaultReporter)

\* callback(): what it does to the application before it returns the
\* handleRequest closure
callback(a) ==
  IF listenerCount(a) = 0 THEN on(a, DefaultReporter) ELSE a

\* the application once the constructor and callback() have run: requests are
\* served by the closure callback() returned, so none comes before this
InitServing ==
  app = callback(NewApp) /\ heap = NewHeap /\ stderr = <<>> /\ calls = <<>>

\* what the constructor's callers pass to onerror.  brand is what
\* Object.prototype.toString reports, instanceOfError the instanceof test;
\* status 0 stands for no status.  err.stack is a falsy value (NoStack, an
\* absent stack included), a string given by its lines, a String object
\* (truthy, not a primitive string, with the built-in replace), or a truthy
\* value with no replace method (e.stack = 42)
NoStack == [kind |-> "none", lines |-> <<>>]
TextStack == [kind |-> "text", lines |-> <<"Error: boom", "    at handler">>]
BoxedStack == [kind |-> "boxed", lines |-> <<"Error: boxed">>]
OtherStack == [kind |-> "other", lines |-> <<>>]
\* err.toString: the inherited one, returning a string; one returning a
\* String object; one returning a value with no replace method; and no
\* callable toString at all (an object without prototype branded Error)
TextToString == [kind |-> "text", lines |-> <<"Error: boom">>]
BoxedToString == [kind |-> "boxed", lines |-> <<"Error: boxed">>]
OtherToString == [kind |-> "other", lines |-> <<>>]
NoToString == [kind |-> "none", lines |-> <<>>]
ErrorWith(brand, inst, status, expose, stack, toStr) ==
  [brand |-> brand, instanceOfError |-> inst, status |-> status,
   expose |-> expose, stack |-> stack, toString |-> toStr]
ErrorValue(brand, inst, status, expose, stack) ==
  ErrorWith(brand, inst, status, expose, stack, TextToString)
NonErrorThrown == "TypeError: non-error thrown"
NotAFunction == "TypeError: msg.replace is not a function"
ToStringNotAFunction == "TypeError: err.toString is not a function"
MiddlewareMustBeFunction == "TypeError: middleware must be a function!"

isNativeError(err) == err.brand = "[object Error]" \/ err.instanceOfError

\* msg.replace(/^/gm, '  ') between two newlines: every line indented
Indent(lines) == [i \in DOMAIN lines |-> "  " \o lines[i]]
Format(lines) == <<"">> \o Indent(lines) \o <<"">>

\* lines 321-322: msg = err.stack || err.toString(), then console.error of
\* msg.replace(/^/gm, '  ') between two newlines
consoleError(err) ==
  IF err.stack.kind = "none" /\ err.toString.kind = "none"
  THEN [result |-> ToStringNotAFunction, out |-> <<>>]
  ELSE LET msg == IF err.stack.kind # "none" THEN err.stack ELSE err.toString
       IN IF msg.kind \in {"text", "boxed"}
          THEN [result |-> "returned", out |-> <<Format(msg.lines)>>]
          ELSE [result |-> NotAFunction, out |-> <<>>]

\* onerror with the status and expose tests before the test for an Error
mutOnerrorChecksStatusFirst(a, err) ==
  IF err.status = 404 \/ err.expose THEN [result |-> "returned", out |-> <<>>]
  ELSE IF ~isNativeError(err) THEN [result |-> NonErrorThrown, out |-> <<>>]
  ELSE IF a.silent THEN [result |-> "returned", out |-> <<>>]
  ELSE consoleError(err)

\* onerror without the test of err.expose
mutOnerrorIgnoresExpose(a, err) ==
  IF ~isNativeError(err) THEN [result |-> NonErrorThrown, out |-> <<>>]
  ELSE IF err.status = 404 THEN [result |-> "returned", out |-> <<>>]
  ELSE IF a.silent THEN [result |-> "returned", out |-> <<>>]
  ELSE consoleError(err)

\* Application.onerror(err): how the call ends and what it hands to
\* console.error; msg is err.stack || err.toString()
appOnerror(a, err) ==
  IF ~isNativeError(err) THEN [result |-> NonErrorThrown, out |-> <<>>]
  ELSE IF err.status = 404 \/ err.expose THEN [result |-> "returned", out |-> <<>>]
  ELSE IF a.silent THEN [result |-> "returned", out |-> <<>>]
  ELSE consoleError(err)

\* use with the push ahead of the type test
mutUsePushesFirst(list, fn) ==
  IF fn.kind \notin {"function", "generator"}
  THEN [result |-> MiddlewareMustBeFunction, list |-> Append(list, fn)]
  ELSE [result |-> "this",
        list |-> Append(list, IF fn.kind = "generator" THEN convert(fn) ELSE fn)]

\* use(fn): the type test, the conversion of a generator function, the push
use(list, fn) ==
  IF fn.kind \notin {"function", "generator"}
  THEN [result |-> MiddlewareMustBeFunction, list |-> list]
  ELSE [result |-> "this",
        list |-> Append(list, IF fn.kind = "generator" THEN convert(fn) ELSE fn)]

\* ------------------------------------------------------------- actions
Requests == DOMAIN rq
\* the one request of a run, and the positions a handler can have
OneRequest == {1}
Positions == 0 .. MaxHandlers - 1

\* the req, res pair of incoming request r
ConnectionOf(r) ==
  [req |-> "req" \o DigitsOf(r), res |-> "res" \o DigitsOf(r), url |-> "/"]

\* a callback whose requests all run on the context of the first
mutHandleRequestOneContext(r) ==
  /\ ~rq[r].started
  /\ LET n == createContext(heap, app, ConnectionOf(1))
     IN /\ heap' = n.heap
        /\ calls' = Append(calls, [op |-> "createContext", context |-> n.context,
                                   request |-> n.request, response |-> n.response,
                                   state |-> n.state])
  /\ rq' = [rq EXCEPT ![1] = handleRequest(rq[1]), ![r].started = TRUE]
  /\ UNCHANGED <<middleware, before, app, stderr>>

\* the callback's handleRequest for incoming request r: createContext(req,
\* res), then this.handleRequest on the context made
HandleRequest(r) ==
  /\ ~rq[r].started
  /\ LET n == createContext(heap, app, ConnectionOf(r))
     IN /\ heap' = n.heap
        /\ calls' = Append(calls, [op |-> "createContext", context |-> n.context,
                                   request |-> n.request, response |-> n.response,
                                   state |-> n.state])
  /\ rq' = [rq EXCEPT ![r] = handleRequest(rq[r])]
  /\ UNCHANGED <<middleware, before, app, stderr>>

\* handler k calls next(), awaiting the result (aw) or dropping it
CallNext(r, k, aw) ==
  /\ k \in DOMAIN rq[r].fr
  /\ rq[r].fr[k].st = "run"
  /\ rq[r].fr[k].calls < MaxCalls
  /\ LET d == dispatch(rq[r], k + 1)
     IN rq' = [rq EXCEPT ![r] =
                 [d.c EXCEPT !.fr[k].calls = @ + 1,
                             !.fr[k].st = IF aw THEN "wait" ELSE "run",
                             !.fr[k].detached = @ \/ ~aw,
                             !.fr[k].pend = d.p]]
  /\ UNCHANGED <<middleware, before, appVars>>

\* a handler that calls next() at most once
CallOnce(r, k, aw) ==
  /\ k \in DOMAIN rq[r].fr
  /\ rq[r].fr[k].calls = 0
  /\ CallNext(r, k, aw)

\* the awaited continuation resolved: handler k runs its post-next part
Resume(r, k) ==
  /\ k \in DOMAIN rq[r].fr
  /\ rq[r].fr[k].st = "wait"
  /\ AwaitedState(rq[r], k) = "resolved"
  /\ rq' = [rq EXCEPT ![r].fr[k].st = "run", ![r].fr[k].post = TRUE]
  /\ UNCHANGED <<middleware, before, appVars>>

\* the awaited continuation rejected and handler k does not catch it
Propagate(r, k) ==
  /\ k \in DOMAIN rq[r].fr
  /\ rq[r].fr[k].st = "wait"
  /\ AwaitedState(rq[r], k) = "rejected"
  /\ rq' = [rq EXCEPT ![r].fr[k].st = "fail",
                      ![r].fr[k].err = AwaitedError(rq[r], k)]
  /\ UNCHANGED <<middleware, before, appVars>>

\* the awaited continuation rejected and handler k catches it
Catch(r, k) ==
  /\ k \in DOMAIN rq[r].fr
  /\ rq[r].fr[k].st = "wait"
  /\ AwaitedState(rq[r], k) = "rejected"
  /\ rq' = [rq EXCEPT ![r].fr[k].st = "run", ![r].fr[k].caught = TRUE]
  /\ UNCHANGED <<middleware, before, appVars>>

Return(r, k) ==
  /\ k \in DOMAIN rq[r].fr
  /\ rq[r].fr[k].st = "run"
  /\ rq' = [rq EXCEPT ![r].fr[k].st = "done"]
  /\ UNCHANGED <<middleware, before, appVars>>

\* handler k throws, or returns a rejected promise
Throw(r, k, e) ==
  /\ k \in DOMAIN rq[r].fr
  /\ rq[r].fr[k].st = "run"
  /\ rq' = [rq EXCEPT ![r].fr[k].st = "fail", ![r].fr[k].err = e]
  /\ UNCHANGED <<middleware, before, appVars>>

\* handler k awaits something that never settles
Hang(r, k) ==
  /\ k \in DOMAIN rq[r].fr
  /\ rq[r].fr[k].st = "run"
  /\ rq' = [rq EXCEPT ![r].fr[k].st = "hung"]
  /\ UNCHANGED <<middleware, before, appVars>>

\* handler k writes to the context; the handlers of one request write once
SetBody(r, k, b) ==
  /\ k \in DOMAIN rq[r].fr
  /\ rq[r].fr[k].st = "run"
  /\ ~rq[r].wrote
  /\ rq' = [rq EXCEPT ![r].body = b, ![r].status = 200, ![r].touched = TRUE,
                      ![r].wrote = TRUE]
  /\ UNCHANGED <<middleware, before, appVars>>

SetStatus(r, k, code) ==
  /\ k \in DOMAIN rq[r].fr
  /\ rq[r].fr[k].st = "run"
  /\ ~rq[r].wrote
  /\ rq' = [rq EXCEPT ![r].status = code, ![r].touched = TRUE, ![r].wrote = TRUE]
  /\ UNCHANGED <<middleware, before, appVars>>

\* ctx.respond = false
Bypass(r, k) ==
  /\ k \in DOMAIN rq[r].fr
  /\ rq[r].fr[k].st = "run"
  /\ ~rq[r].wrote
  /\ rq' = [rq EXCEPT ![r].respond = FALSE, ![r].wrote = TRUE]
  /\ UNCHANGED <<middleware, before, appVars>>

\* the reactions of fnMiddleware(ctx).then(handleResponse).catch(onerror)
Settle(r) ==
  /\ rq[r].chain = "pending"
  /\ PipelineState(rq[r]) \in {"resolved", "rejected"}
  /\ rq' = [rq EXCEPT ![r] = settle(rq[r])]
  /\ before' = IF PipelineState(rq[r]) = "resolved"
               THEN [before EXCEPT ![r] = rq[r]] ELSE before
  /\ UNCHANGED <<middleware, appVars>>

\* .catch(onerror) after handleResponse threw; handlers still running and
\* transport events may come in between
SettleCatch(r) ==
  /\ rq[r].chain = "threw"
  /\ rq' = [rq EXCEPT ![r] = settleCatch(rq[r])]
  /\ UNCHANGED <<middleware, before, appVars>>

\* the response was flushed: 'finish'
TransportFinish(r) ==
  /\ rq[r].started /\ rq[r].ended /\ ~rq[r].finished /\ rq[r].socket = "open"
  /\ rq' = [rq EXCEPT ![r] = fireOnFinished([rq[r] EXCEPT !.finished = TRUE], NULL)]
  /\ UNCHANGED <<middleware, before, appVars>>

\* the socket failed before the response finished: 'error'
TransportFail(r) ==
  /\ rq[r].started /\ ~rq[r].finished /\ rq[r].socket = "open"
  /\ rq' = [rq EXCEPT ![r] = fireOnFinished([rq[r] EXCEPT !.socket = "error"], TransportError)]
  /\ UNCHANGED <<middleware, before, appVars>>

\* the socket closed before the response finished, on its own or after an
\* error: 'close'
TransportClose(r) ==
  /\ rq[r].started /\ ~rq[r].finished /\ rq[r].socket \in {"open", "error"}
  /\ rq' = [rq EXCEPT ![r] = fireOnFinished([rq[r] EXCEPT !.socket = "closed"], NULL)]
  /\ UNCHANGED <<middleware, before, appVars>>

\* respond(ctx) called on a context as given
DirectRespond(r) ==
  /\ ~rq[r].started /\ rq[r].respondCalls = 0
  /\ rq' = [rq EXCEPT ![r] = handleResponse(rq[r])]
  /\ before' = [before EXCEPT ![r] = rq[r]]
  /\ UNCHANGED <<middleware, appVars>>

\* ------------------------------------------------- the request lifecycle
\* One request from handleRequest to the end of its response, with the
\* transport's events; every handler calls next() at most once here, the
\* repeated calls being explored in SpecCompose.
\* the method and HTTP major version of the requests served
Transports == {<<"GET", 1>>, <<"GET", 2>>, <<"HEAD", 1>>}
HandlerBodies == {StrBody("hi"), CircularBody}
HandlerStatuses == {204}

Init ==
  /\ \E n \in 0 .. MaxHandlers : middleware = [i \in 1 .. n |-> Fn(i)]
  /\ \E mv \in Transports :
       rq = [r \in OneRequest |-> NewRequest(Len(middleware), mv[1], mv[2])]
  /\ before = rq
  /\ InitServing

Next ==
  \E r \in OneRequest :
    \/ HandleRequest(r)
    \/ Settle(r)
    \/ SettleCatch(r)
    \/ TransportFinish(r)
    \/ TransportFail(r)
    \/ TransportClose(r)
    \/ \E k \in Positions :
         \/ \E aw \in BOOLEAN : CallOnce(r, k, aw)
         \/ Resume(r, k)
         \/ Propagate(r, k)
         \/ Catch(r, k)
         \/ Return(r, k)
         \/ \E e \in HandlerErrors : Throw(r, k, e)
         \/ Hang(r, k)
         \/ \E b \in HandlerBodies : SetBody(r, k, b)
         \/ \E code \in HandlerStatuses : SetStatus(r, k, code)
         \/ Bypass(r, k)

Spec == Init /\ [][Next]_vars

\* --------------------------------------------- the composed pipeline alone
\* One GET request through the composed handlers and the settlement chain,
\* on a transport that stays open; handlers call next() up to MaxCalls times.
InitCompose ==
  /\ \E n \in 0 .. MaxHandlers : middleware = [i \in 1 .. n |-> Fn(i)]
  /\ rq = [r \in OneRequest |-> NewRequest(Len(middleware), "GET", 1)]
  /\ before = rq
  /\ InitServing

NextCompose ==
  \E r \in OneRequest :
    \/ HandleRequest(r)
    \/ Settle(r)
    \/ \E k \in Positions :
         \/ \E aw \in BOOLEAN : CallNext(r, k, aw)
         \/ Resume(r, k)
         \/ Propagate(r, k)
         \/ Catch(r, k)
         \/ Return(r, k)
         \/ \E e \in HandlerErrors : Throw(r, k, e)
         \/ Hang(r, k)

SpecCompose == InitCompose /\ [][NextCompose]_vars

\* ------------------------------------------------------ a longer chain
\* One GET request through up to MaxChain handlers, each calling its
\* continuation once at most, awaiting it or not, and returning or throwing.
MaxChain == 4
ChainPositions == 0 .. MaxChain - 1
ChainErrors == {"E1"}

InitChain ==
  /\ \E n \in 1 .. MaxChain : middleware = [i \in 1 .. n |-> Fn(i)]
  /\ rq = [r \in OneRequest |-> NewRequest(Len(middleware), "GET", 1)]
  /\ before = rq
  /\ InitServing

NextChain ==
  \E r \in OneRequest :
    \/ HandleRequest(r)
    \/ Settle(r)
    \/ \E k \in ChainPositions :
         \/ \E aw \in BOOLEAN : CallOnce(r, k, aw)
         \/ Resume(r, k)
         \/ Propagate(r, k)
         \/ Return(r, k)
         \/ \E e \in ChainErrors : Throw(r, k, e)

SpecChain == InitChain /\ [][NextChain]_vars

\* ------------------------------------------------------- respond alone
\* respond(ctx) applied once to each context of a set of inputs.
RespondStatuses == {200, 204, 205, 304, 404, 299}
RespondMethods == {"GET", "HEAD"}
RespondBodies ==
  {NullBody, StrBody("hi"), StrBody(""), BufBody("abc"), StreamBody,
   ObjBody(<< <<"a", 1>> >>), CircularBody}
RespondHeaders ==
  {<<>>, [x \in {"Content-Length"} |-> 5],
   [x \in {"Content-Type", "Transfer-Encoding"} |->
      IF x = "Content-Type" THEN "application/json" ELSE "chunked"]}
\* res.writableEnded, res.headersSent and the socket, as a handler may leave them
RespondTransports ==
  {<<FALSE, FALSE, "open">>, <<FALSE, TRUE, "open">>, <<TRUE, TRUE, "open">>,
   <<FALSE, FALSE, "error">>}

InitRespond ==
  /\ middleware = <<>>
  /\ \E st \in RespondStatuses, m \in RespondMethods, b \in RespondBodies,
        rs \in BOOLEAN, h \in RespondHeaders, t \in RespondTransports,
        x \in BOOLEAN, v \in {1, 2} :
       rq = [r \in OneRequest |->
               [NewRequest(0, m, v) EXCEPT !.status = st, !.body = b, !.respond = rs,
                  !.headers = h, !.ended = t[1], !.headersSent = t[2], !.socket = t[3],
                  !.explicitNullBody = x]]
  /\ before = rq
  /\ InitApp

NextRespond == \E r \in OneRequest : DirectRespond(r)

SpecRespond == InitRespond /\ [][NextRespond]_vars


\* --------------------------------------------------- the error reporter
\* Application.onerror called on a set of values, under either setting of
\* silent.
MaxReports == 2
NativeErrors ==
  {ErrorValue("[object Error]", TRUE, st, x, sk) :
     st \in {0, 404, 500}, x \in BOOLEAN,
     sk \in {NoStack, TextStack, BoxedStack, OtherStack}}
\* errors whose toString is not the inherited one: some without a stack, so
\* that toString is what gets printed, one with a stack
OddErrors ==
  {ErrorWith("[object Error]", TRUE, st, FALSE, NoStack, ts) :
     st \in {404, 500}, ts \in {BoxedToString, OtherToString}} \cup
  {ErrorWith("[object Error]", FALSE, st, FALSE, NoStack, NoToString) :
     st \in {404, 500}} \cup
  {ErrorWith("[object Error]", FALSE, 500, x, TextStack, NoToString) :
     x \in BOOLEAN}
\* an error of another realm, and an instance of a class that extends Error
\* and names itself otherwise
OtherErrors ==
  {ErrorValue("[object Error]", FALSE, 500, FALSE, TextStack),
   ErrorValue("[object Object]", TRUE, 0, FALSE, NoStack)}
NonErrors ==
  {ErrorValue("[object String]", FALSE, 0, FALSE, NoStack)} \cup
  {ErrorValue("[object Object]", FALSE, st, x, NoStack) :
     st \in {0, 404}, x \in BOOLEAN}
ThrownValues == NativeErrors \cup OddErrors \cup OtherErrors \cup NonErrors

\* app.silent = b
SetSilent(b) ==
  /\ app.silent # b
  /\ app' = [app EXCEPT !.silent = b]
  /\ UNCHANGED <<middleware, rq, before, heap, stderr, calls>>

\* the 'error' event reaches the default listener: this.onerror(err)
ReportError(err) ==
  /\ Len(calls) < MaxReports
  /\ LET o == appOnerror(app, err)
     IN /\ stderr' = stderr \o o.out
        /\ calls' = Append(calls, [op |-> "onerror", arg |-> err, silent |-> app.silent,
                                   result |-> o.result, wrote |-> Len(o.out)])
  /\ UNCHANGED <<middleware, rq, before, app, heap>>

InitReport ==
  /\ middleware = <<>>
  /\ rq = [r \in OneRequest |-> NewRequest(0, "GET", 1)]
  /\ before = rq
  /\ InitApp

NextReport ==
  \/ \E b \in BOOLEAN : SetSilent(b)
  \/ \E err \in ThrownValues : ReportError(err)

SpecReport == InitReport /\ [][NextReport]_vars

\* ------------------------------------------------------------------ use
\* use() called on functions, generator functions and other values.
MaxUses == 3
UseArguments == {Fn(1), Fn(2), Gen(3), NotFn("string"), NotFn("undefined")}

Use(fn) ==
  /\ Len(calls) < MaxUses
  /\ LET u == use(middleware, fn)
     IN /\ middleware' = u.list
        /\ calls' = Append(calls, [op |-> "use", arg |-> fn, result |-> u.result])
  /\ UNCHANGED <<rq, before, app, heap, stderr>>

InitUse ==
  /\ middleware = <<>>
  /\ rq = [r \in OneRequest |-> NewRequest(0, "GET", 1)]
  /\ before = rq
  /\ InitApp

NextUse == \E fn \in UseArguments : Use(fn)

SpecUse == InitUse /\ [][NextUse]_vars

\* -------------------------------------------------------- createContext
\* createContext called for incoming connections, with writes to the objects
\* it returned and to the application's templates in between.
MaxContexts == 2
MaxWrites == 2
Connections ==
  {[req |-> "req1", res |-> "res1", url |-> "/a"],
   [req |-> "req2", res |-> "res2", url |-> "/b"]}
\* the properties written on the templates: one that context and request view
\* own, one that nothing owns
WrittenKeys == {"originalUrl", "user"}
WrittenValues == {Val("x"), Val("y")}
Views == {"context", "request", "response", "state"}
\* the properties handlers write: an own field of the context and of the
\* request view, a new one on the response view, a key of the state
FieldWrites ==
  {<<"context", "originalUrl">>, <<"request", "originalUrl">>,
   <<"response", "user">>, <<"state", "user">>}
TemplateNames == {"context", "request", "response"}
Written == Len(SelectSeq(calls, LAMBDA k : k.op = "write"))
Created == SelectSeq(calls, LAMBDA k : k.op = "createContext")

CreateContext(conn) ==
  /\ Len(Created) < MaxContexts
  /\ LET n == createContext(heap, app, conn)
     IN /\ heap' = n.heap
        /\ calls' = Append(calls, [op |-> "createContext", context |-> n.context,
                                   request |-> n.request, response |-> n.response,
                                   state |-> n.state])
  /\ UNCHANGED <<middleware, rq, before, app, stderr>>

\* a handler writes a property of the i-th context, of one of its views or of
\* its state
WriteField(i, view, key, v) ==
  /\ i <= Len(Created)
  /\ Written < MaxWrites
  /\ heap' = SetOwn(heap, Created[i][view], key, v)
  /\ calls' = Append(calls, [op |-> "write"])
  /\ UNCHANGED <<middleware, rq, before, app, stderr>>

\* app.context[key] = v, and the same for app.request and app.response
SetTemplate(t, key, v) ==
  /\ Written < MaxWrites
  /\ heap' = SetOwn(heap, app[t], key, v)
  /\ calls' = Append(calls, [op |-> "write"])
  /\ UNCHANGED <<middleware, rq, before, app, stderr>>

InitContext ==
  /\ middleware = <<>>
  /\ rq = [r \in OneRequest |-> NewRequest(0, "GET", 1)]
  /\ before = rq
  /\ InitApp

NextContext ==
  \/ \E conn \in Connections : CreateContext(conn)
  \/ \E i \in 1 .. MaxContexts, w \in FieldWrites :
       WriteField(i, w[1], w[2], Val("x"))
  \/ \E t \in TemplateNames, key \in WrittenKeys, v \in WrittenValues :
       SetTemplate(t, key, v)

SpecContext == InitContext /\ [][NextContext]_vars

\* ------------------------------------------------------- two requests
\* Two requests served by one callback, their handlers and their transports
\* interleaving in every order; each handler awaits the one call it makes.
TwoRequests == {1, 2}
TwoBodies == {StrBody("hi"), StrBody("yo")}

InitTwo ==
  /\ \E n \in 1 .. MaxHandlers : middleware = [i \in 1 .. n |-> Fn(i)]
  /\ rq = [r \in TwoRequests |-> NewRequest(Len(middleware), "GET", 1)]
  /\ before = rq
  /\ InitServing

NextTwo ==
  \E r \in TwoRequests :
    \/ HandleRequest(r)
    \/ Settle(r)
    \/ TransportFinish(r)
    \/ TransportFail(r)
    \/ \E k \in Positions :
         \/ CallOnce(r, k, TRUE)
         \/ Resume(r, k)
         \/ Propagate(r, k)
         \/ Return(r, k)
         \/ \E e \in HandlerErrors : Throw(r, k, e)
         \/ \E b \in TwoBodies : SetBody(r, k, b)

SpecTwo == InitTwo /\ [][NextTwo]_vars

\* ------------------------------------------------------------- callback
\* callback() and the owner's on('error', fn) called in every order.
MaxRegistrations == 4
UserListeners == {"logErrors", "notifyErrors"}

Callback ==
  /\ Len(calls) < MaxRegistrations
  /\ app' = callback(app)
  /\ calls' = Append(calls, [op |-> "callback"])
  /\ UNCHANGED <<middleware, rq, before, heap, stderr>>

\* app.on('error', fn)
OnError(fn) ==
  /\ Len(calls) < MaxRegistrations
  /\ app' = on(app, fn)
  /\ calls' = Append(calls, [op |-> "on"])
  /\ UNCHANGED <<middleware, rq, before, heap, stderr>>

InitCallback ==
  /\ middleware = <<>>
  /\ rq = [r \in OneRequest |-> NewRequest(0, "GET", 1)]
  /\ before = rq
  /\ InitApp

NextCallback ==
  \/ Callback
  \/ \E fn \in UserListeners : OnError(fn)

SpecCallback == InitCallback /\ [][NextCallback]_vars

\* ================================================================ claims
Frames(c) == DOMAIN c.fr
Entered(c, k) == c.fr[k].st # "idle"
Settled(c, k) == c.fr[k].st \in {"done", "fail"}
\* the number of errors (non-null arguments) in a sequence of onerror arguments
ErrorCount(args) == Cardinality({i \in DOMAIN args : args[i] # NULL})
\* the position of the first occurrence of an event in a log, 0 when absent
FirstAt(log, ev) ==
  IF \E i \in DOMAIN log : log[i] = ev
  THEN CHOOSE i \in DOMAIN log : log[i] = ev /\ \A j \in 1 .. i - 1 : log[j] # ev
  ELSE 0
\* the fallback body respond synthesizes for a status
FallbackText(c) ==
  IF c.httpVersionMajor >= 2 THEN StringOf(c.status)
  ELSE IF StatusesMessage(c.status) # "" THEN StatusesMessage(c.status)
  ELSE StringOf(c.status)

\* every handler so far calls its continuation once at most, awaits it, and
\* neither fails nor hangs; one that has returned has called it exactly once
OnionHandlers(c) ==
  \A k \in Frames(c) :
    /\ ~c.fr[k].detached /\ c.fr[k].calls <= 1 /\ ~c.fr[k].caught
    /\ c.fr[k].st \notin {"fail", "hung"}
    /\ (c.fr[k].st = "done" => c.fr[k].calls = 1)

\* C1: with handlers that each call their continuation exactly once and await
\* it, handler k is entered only after handler k-1, no post-next part runs
\* before every handler has been entered, the post-next part of handler k
\* runs only after handler k+1 has run its own and finished, and a resolved
\* pipeline has run every post-next part.
C1_OnionOrder ==
  \A r \in Requests :
    LET c == rq[r] IN
    OnionHandlers(c) =>
      /\ \A k \in Frames(c) :
           /\ (Entered(c, k) /\ k > 0 => Entered(c, k - 1))
           /\ (c.fr[k].post => \A j \in Frames(c) : Entered(c, j))
           /\ (c.fr[k].post /\ k + 1 \in Frames(c) =>
                 c.fr[k + 1].post /\ c.fr[k + 1].st = "done")
      /\ (PipelineState(c) = "resolved" =>
            \A k \in Frames(c) : c.fr[k].post /\ c.fr[k].st = "done")

C1_Witness ==
  \E r \in Requests :
    /\ Len(middleware) >= 2
    /\ OnionHandlers(rq[r])
    /\ PipelineState(rq[r]) = "resolved"
    /\ \A k \in Frames(rq[r]) : rq[r].fr[k].post /\ rq[r].fr[k].calls = 1

\* C2: a second call of the continuation by handler k returns the promise
\* rejected with the multiple-call error, at every position k, and no handler
\* body is entered more than once in a request.
C2_SecondCallFails ==
  \A r \in Requests : \A k \in Frames(rq[r]) :
    LET f == rq[r].fr[k] IN
    /\ f.entries <= 1
    /\ (f.calls >= 2 =>
          /\ f.pend = "multi"
          /\ (f.st = "wait" =>
                /\ AwaitedState(rq[r], k) = "rejected"
                /\ AwaitedError(rq[r], k) = MultipleNextCallError))

C2_Witness ==
  \E r \in Requests :
    /\ Len(middleware) >= 2
    /\ rq[r].fr[0].calls = 2
    /\ rq[r].fr[0].st = "fail" /\ rq[r].fr[0].err = MultipleNextCallError
    /\ rq[r].fr[1].entries = 1

\* handlers 0..k-1 each call their continuation once, await it, and neither
\* fail nor hang
UpstreamOnion(c, k) ==
  \A j \in 0 .. k - 1 :
    /\ ~c.fr[j].detached /\ c.fr[j].calls = 1 /\ ~c.fr[j].caught
    /\ c.fr[j].st \notin {"fail", "hung"}

\* handler k has returned without ever calling its continuation
ShortCircuits(c, k) == c.fr[k].st = "done" /\ c.fr[k].calls = 0
\* no handler after k is entered
NoneAfter(c, k) ==
  /\ \A j \in Frames(c) : j > k => c.fr[j].st = "idle" /\ c.fr[j].entries = 0
  /\ c.index = k
\* handlers k-1..0 run their post-next parts in that order: handler j starts
\* its own only when handler j+1 has finished, and has run its own if it has
\* one; the pipeline does not reject, and has resolved with every post-next
\* part of 0..k-1 run and finished once handler 0 has settled
UnwindsInOrder(c, k) ==
  /\ \A j \in 0 .. k - 1 :
       c.fr[j].post => /\ c.fr[j + 1].st = "done"
                       /\ (j + 1 < k => c.fr[j + 1].post)
  /\ PipelineState(c) # "rejected"
  /\ (PipelineState(c) = "resolved" =>
        \A j \in 0 .. k - 1 : c.fr[j].post /\ c.fr[j].st = "done")

\* C3 as stated: when handler k has returned without calling its
\* continuation, no handler after k is entered, handlers k-1..0 run their
\* post-next parts in that order, and the pipeline settles successfully.
C3_Original ==
  \A r \in Requests : \A k \in Frames(rq[r]) :
    ShortCircuits(rq[r], k) => NoneAfter(rq[r], k) /\ UnwindsInOrder(rq[r], k)

\* C3 amended: when handler k has returned without calling its continuation,
\* no handler after k is entered, whatever the handlers before k do; when
\* moreover each of the handlers 0..k-1 awaits the continuation call it made
\* and neither throws nor hangs, they run their post-next parts in the order
\* k-1..0 and the pipeline settles successfully.
C3_ShortCircuit ==
  \A r \in Requests : \A k \in Frames(rq[r]) :
    LET c == rq[r] IN
    ShortCircuits(c, k) =>
      /\ NoneAfter(c, k)
      /\ (UpstreamOnion(c, k) => UnwindsInOrder(c, k))

C3_Witness ==
  \E r \in Requests :
    /\ Len(middleware) = 4
    /\ ShortCircuits(rq[r], 2)
    /\ UpstreamOnion(rq[r], 2)
    /\ rq[r].fr[3].st = "idle"
    /\ rq[r].fr[1].post /\ rq[r].fr[0].post
    /\ PipelineState(rq[r]) = "resolved"
    /\ rq[r].chain = "settled" /\ rq[r].respondCalls = 1

\* C4 as stated: once the chain has settled, a failed handler k below
\* handlers that did not catch means the pipeline rejected with k's error, no
\* handler after k was entered, and ctx.onerror received that error.
C4_Original ==
  \A r \in Requests : \A k \in Frames(rq[r]) :
    LET c == rq[r] IN
    (c.chain = "settled" /\ c.fr[k].st = "fail"
       /\ \A j \in 0 .. k - 1 : ~c.fr[j].caught) =>
      /\ PipelineState(c) = "rejected"
      /\ PipelineError(c) = c.fr[k].err
      /\ \A j \in Frames(c) : j > k => ~Entered(c, j)
      /\ c.chainArgs = <<c.fr[k].err>>

\* C4 amended: once the chain has settled, a failed handler k below handlers
\* that await their continuation and do not catch its failure means the
\* pipeline rejected with exactly k's error and ctx.onerror received that
\* error; no handler after k was entered if k failed before calling its
\* continuation.
C4_ErrorPropagates ==
  \A r \in Requests : \A k \in Frames(rq[r]) :
    LET c == rq[r] IN
    (c.chain = "settled" /\ c.fr[k].st = "fail"
       /\ \A j \in 0 .. k - 1 : ~c.fr[j].caught /\ ~c.fr[j].detached) =>
      /\ PipelineState(c) = "rejected"
      /\ PipelineError(c) = c.fr[k].err
      /\ (c.fr[k].calls = 0 => \A j \in Frames(c) : j > k => ~Entered(c, j))
      /\ c.chainArgs = <<c.fr[k].err>>
      /\ c.onerrorArgs = <<c.fr[k].err>>
      /\ c.respondCalls = 0

C4_Witness ==
  \E r \in Requests : \E k \in Frames(rq[r]) :
    /\ k >= 1
    /\ rq[r].chain = "settled"
    /\ rq[r].fr[k].st = "fail" /\ rq[r].fr[k].err = "E2" /\ rq[r].fr[k].calls = 0
    /\ \A j \in 0 .. k - 1 : ~rq[r].fr[j].caught /\ ~rq[r].fr[j].detached
    /\ rq[r].chainArgs = <<"E2">>

\* C5 as stated: the chain calls respond exactly when the pipeline resolved,
\* onerror exactly when it rejected, and never both.
C5_Original ==
  \A r \in Requests :
    LET c == rq[r] IN
    /\ (c.chain = "pending" => c.respondCalls = 0 /\ c.chainArgs = <<>>)
    /\ (c.chain = "settled" =>
          /\ (c.respondCalls >= 1 <=> PipelineState(c) = "resolved")
          /\ (Len(c.chainArgs) >= 1 <=> PipelineState(c) = "rejected")
          /\ ~(c.respondCalls >= 1 /\ Len(c.chainArgs) >= 1))

\* C5 amended: the chain calls respond exactly when the pipeline resolved, and
\* onerror exactly when the pipeline rejected or respond itself threw; both
\* are called for one request only when respond threw, onerror then in a
\* later turn than respond.
C5_RespondOrError ==
  \A r \in Requests :
    LET c == rq[r] IN
    /\ (c.chain = "pending" => c.respondCalls = 0 /\ c.chainArgs = <<>>)
    /\ (c.chain = "threw" =>
          /\ PipelineState(c) = "resolved"
          /\ c.respondCalls = 1 /\ c.respondThrew /\ c.chainArgs = <<>>)
    /\ (c.chain = "settled" =>
          /\ (c.respondCalls = 1 <=> PipelineState(c) = "resolved")
          /\ (c.respondCalls = 0 <=> PipelineState(c) = "rejected")
          /\ (Len(c.chainArgs) = 1 <=>
                PipelineState(c) = "rejected" \/ c.respondThrew)
          /\ Len(c.chainArgs) <= 1
          /\ (c.respondCalls >= 1 /\ Len(c.chainArgs) >= 1 =>
                c.respondThrew /\ c.chainArgs = <<StringifyError>>)
          /\ (PipelineState(c) = "rejected" => c.chainArgs = <<PipelineError(c)>>))

C5_Witness ==
  \E r \in Requests :
    /\ rq[r].chain = "settled"
    /\ PipelineState(rq[r]) = "resolved"
    /\ rq[r].respondCalls = 1 /\ rq[r].respondThrew
    /\ rq[r].chainArgs = <<StringifyError>>

\* C6 as stated: respond runs at most once, only when the pipeline has
\* resolved and every entered handler has finished, and never in a request
\* one of whose handlers never settles.
C6_Original ==
  \A r \in Requests :
    LET c == rq[r] IN
    /\ c.respondCalls <= 1
    /\ (c.respondCalls >= 1 =>
          /\ PipelineState(c) = "resolved"
          /\ \A k \in Frames(c) : Entered(c, k) => Settled(c, k))
    /\ ((\E k \in Frames(c) : c.fr[k].st = "hung") => c.respondCalls = 0)

\* C6 amended: respond runs at most once and only when the pipeline has
\* resolved; when every handler awaits the continuation calls it makes, every
\* entered handler has then finished, and respond never runs in a request one
\* of whose handlers never settles.
C6_RespondAfterPipeline ==
  \A r \in Requests :
    LET c == rq[r] IN
    /\ c.respondCalls <= 1
    /\ (c.respondCalls >= 1 =>
          PipelineState(c) = "resolved" /\ c.chain \in {"settled", "threw"})
    /\ ((\A k \in Frames(c) : ~c.fr[k].detached) =>
          /\ (c.respondCalls >= 1 =>
                \A k \in Frames(c) : Entered(c, k) => Settled(c, k))
          /\ ((\E k \in Frames(c) : c.fr[k].st = "hung") => c.respondCalls = 0))

C6_Witness ==
  \E r \in Requests :
    /\ Len(middleware) >= 2
    /\ rq[r].respondCalls = 1
    /\ \A k \in Frames(rq[r]) : ~rq[r].fr[k].detached /\ rq[r].fr[k].st = "done"

\* C7 as stated: over both triggers, onerror receives an error at most once
\* in a request.
C7_Original ==
  \A r \in Requests : ErrorCount(rq[r].onerrorArgs) <= 1

\* C7 amended: each trigger calls onerror at most once, the settlement chain
\* once and the completion callback once, so that onerror receives an error
\* at most twice in a request.
C7_OncePerTrigger ==
  \A r \in Requests :
    /\ Len(rq[r].chainArgs) <= 1
    /\ Len(rq[r].finishedArgs) <= 1
    /\ Len(rq[r].onerrorArgs) = Len(rq[r].chainArgs) + Len(rq[r].finishedArgs)
    /\ ErrorCount(rq[r].onerrorArgs) <= 2

C7_Witness ==
  \E r \in Requests :
    /\ rq[r].finishedArgs = <<TransportError>>
    /\ rq[r].chainArgs = <<"E1">>
    /\ rq[r].onerrorArgs = <<TransportError, "E1">>
    /\ rq[r].socket = "closed"

\* C8: the completion callback is registered before the pipeline is started;
\* the first close or error of the transport, whether the chain has settled
\* or not and whether respond has run or not, calls onerror with it, and
\* changes neither the handlers' frames nor the settlement chain.
C8_TransportForwarded ==
  /\ [](\A r \in Requests :
          /\ (rq[r].started =>
                /\ rq[r].onFinished # "none"
                /\ 0 < FirstAt(rq[r].log, "onFinished")
                /\ FirstAt(rq[r].log, "onFinished") < FirstAt(rq[r].log, "fnMiddleware"))
          /\ (rq[r].started /\ ~rq[r].finished /\ rq[r].socket = "open" =>
                rq[r].onFinished = "armed"))
  /\ [][\A r \in Requests :
          (rq[r].socket = "open" /\ rq'[r].socket # "open") =>
            /\ rq'[r].onerrorArgs =
                 Append(rq[r].onerrorArgs,
                        IF rq'[r].socket = "error" THEN TransportError ELSE NULL)
            /\ rq'[r].fr = rq[r].fr /\ rq'[r].index = rq[r].index
            /\ rq'[r].chain = rq[r].chain
            /\ rq'[r].respondCalls = rq[r].respondCalls]_vars

C8_Witness ==
  \E r \in Requests :
    /\ Len(middleware) >= 1
    /\ rq[r].finishedArgs = <<TransportError>>
    /\ rq[r].fr[0].post /\ rq[r].fr[0].st = "done"
    /\ rq[r].chain = "settled"
    /\ FirstAt(rq[r].log, "callback") < FirstAt(rq[r].log, "respond")

\* a request whose pipeline resolved, and the chain settled, with no handler
\* having set status or body
Untouched(c) ==
  c.chain = "settled" /\ PipelineState(c) = "resolved" /\ ~c.touched

\* C9 as stated: such a request had its status set to 404 before the first
\* handler ran, got no output before the chain settled, and respond ran once
\* and ended the response with status 404 and the fallback text.
C9_Original ==
  \A r \in Requests :
    LET c == rq[r] IN
    /\ (c.started => FirstAt(c.log, "status404") = 1)
    /\ (c.endCalls > 0 \/ c.piped => c.chain = "settled")
    /\ (Untouched(c) =>
          /\ c.respondCalls = 1
          /\ c.endCalls = 1 /\ c.status = 404 /\ c.payload = FallbackText(c))

\* C9 amended: such a request had its status set to 404 before the first
\* handler ran, got no output before the chain settled, and respond ran once;
\* it ended the response with status 404 and the fallback text when the
\* method is not HEAD, ctx.respond is not false and the response was still
\* writable; for HEAD it ended with no payload, and otherwise wrote nothing.
C9_DefaultNotFound ==
  \A r \in Requests :
    LET c == rq[r]
        b == before[r] IN
    /\ (c.started => FirstAt(c.log, "status404") = 1)
    /\ (c.endCalls > 0 \/ c.piped => c.chain = "settled")
    /\ (Untouched(c) =>
          /\ c.respondCalls = 1
          /\ b.status = 404 /\ c.status = 404
          /\ (b.respond /\ Writable(b) /\ c.method # "HEAD" =>
                /\ c.endCalls = 1 /\ c.payload = FallbackText(c)
                /\ c.headers["Content-Length"] = ByteLength(FallbackText(c)))
          /\ (b.respond /\ Writable(b) /\ c.method = "HEAD" =>
                c.endCalls = 1 /\ c.payload = NULL)
          /\ (~b.respond \/ ~Writable(b) => c.endCalls = 0))

C9_Witness ==
  \E r \in Requests :
    /\ Len(middleware) = 0
    /\ Untouched(rq[r])
    /\ rq[r].method = "GET" /\ rq[r].httpVersionMajor = 1
    /\ rq[r].endCalls = 1 /\ rq[r].status = 404 /\ rq[r].payload = "Not Found"

\* C10: respond on a context whose respond flag is false, or whose response
\* is not writable, ends nothing, pipes nothing, sets no header and leaves
\* body and status as they were, whatever the status, method and body.
C10_RespondGuards ==
  \A r \in Requests :
    LET c == rq[r]
        b == before[r] IN
    (c.respondCalls = 1 /\ (~b.respond \/ ~Writable(b))) =>
      /\ c.endCalls = b.endCalls /\ c.ended = b.ended /\ c.payload = b.payload
      /\ c.piped = b.piped
      /\ c.headers = b.headers /\ c.headersSent = b.headersSent
      /\ c.body = b.body /\ c.status = b.status
      /\ c.explicitNullBody = b.explicitNullBody
      /\ ~c.respondThrew

C10_Witness ==
  \E r \in Requests :
    /\ rq[r].respondCalls = 1
    /\ before[r].respond /\ before[r].socket = "error"
    /\ before[r].body = StrBody("hi") /\ before[r].status = 204
    /\ before[r].method = "HEAD"
    /\ rq[r].endCalls = 0 /\ rq[r].body = StrBody("hi")

\* respond ran once on a context with responding enabled and a writable response
Responded(r) ==
  rq[r].respondCalls = 1 /\ before[r].respond /\ Writable(before[r])
\* a header map without the fields of S
HeadersMinus(h, S) == [x \in (DOMAIN h) \ S |-> h[x]]

\* C11: on a writable response with responding enabled and a status of 204,
\* 205 or 304, respond sets the body to null and ends the response once with
\* no payload, for every body and method: it pipes nothing, throws nothing,
\* sets no Content-Length for HEAD and writes no fallback text for a null
\* body; the null assignment strips the entity headers when they are unsent.
C11_NoBodyStatus ==
  \A r \in Requests :
    LET c == rq[r]
        b == before[r] IN
    (Responded(r) /\ b.status \in {204, 205, 304}) =>
      /\ c.body = NullBody
      /\ c.endCalls = b.endCalls + 1 /\ c.ended /\ c.payload = NULL
      /\ ~c.piped /\ ~c.respondThrew
      /\ c.status = b.status
      /\ c.headers =
           IF b.headersSent THEN b.headers
           ELSE HeadersMinus(b.headers,
                             {"Content-Type", "Content-Length", "Transfer-Encoding"})

C11_Witness ==
  \E r \in Requests :
    /\ Responded(r)
    /\ before[r].status = 204 /\ before[r].method = "HEAD"
    /\ before[r].body = StrBody("hi") /\ ~before[r].headersSent
    /\ rq[r].body = NullBody /\ rq[r].endCalls = 1 /\ rq[r].payload = NULL
    /\ rq[r].headers = <<>>

\* the HEAD branch sets the length: headers unsent, no Content-Length header,
\* and a length that is an integer
HeadSetsLength(b) ==
  ~b.headersSent /\ ~Has(b, "Content-Length") /\ ResponseLength(b) >= 0

\* C12: for HEAD on a writable response with responding enabled and a status
\* outside 204, 205 and 304, respond ends the response once with no payload
\* for every body, pipes nothing, throws nothing and leaves body and status
\* as they were; it sets Content-Length to the response's length exactly when
\* the headers are unsent, carry no Content-Length and the length is an
\* integer, and leaves the headers as they were otherwise.
C12_HeadNoPayload ==
  \A r \in Requests :
    LET c == rq[r]
        b == before[r] IN
    (Responded(r) /\ b.method = "HEAD" /\ b.status \notin StatusesEmpty) =>
      /\ c.body = b.body /\ c.status = b.status /\ ~c.piped /\ ~c.respondThrew
      /\ c.endCalls = b.endCalls + 1 /\ c.ended /\ c.payload = NULL
      /\ c.headers = IF HeadSetsLength(b)
                     THEN SetLength(b, ResponseLength(b)).headers
                     ELSE b.headers

C12_Witness ==
  \E r \in Requests :
    /\ Responded(r)
    /\ before[r].method = "HEAD" /\ before[r].status = 200
    /\ before[r].body = BufBody("abc") /\ before[r].headers = <<>>
    /\ ~before[r].headersSent
    /\ rq[r].endCalls = 1 /\ rq[r].payload = NULL
    /\ rq[r].headers = [x \in {"Content-Length"} |-> 3]

\* respond reached its null-body branch
NullBodyCase(r) ==
  /\ Responded(r)
  /\ before[r].method # "HEAD" /\ before[r].status \notin StatusesEmpty
  /\ before[r].body.kind = "null"

\* C13: for a null body on a writable non-HEAD response whose status is not
\* 204, 205 or 304: with the explicit-null marker respond removes
\* Content-Type and Transfer-Encoding, whether the headers are sent or not,
\* and ends with no payload; without it respond ends with the text
\* String(status) for HTTP major version 2 and above, and the status message,
\* or String(status) when there is none, below, and sets Content-Type text
\* and Content-Length to the text's byte length only when the headers are
\* unsent.
C13_NullBody ==
  \A r \in Requests :
    LET c == rq[r]
        b == before[r]
        text == IF b.httpVersionMajor >= 2 THEN StringOf(b.status)
                ELSE IF Message(b) # "" THEN Message(b) ELSE StringOf(b.status) IN
    NullBodyCase(r) =>
      /\ c.endCalls = b.endCalls + 1 /\ c.ended /\ ~c.piped /\ ~c.respondThrew
      /\ c.status = b.status /\ c.body = b.body
      /\ (b.explicitNullBody =>
            /\ c.payload = NULL
            /\ c.headers = HeadersMinus(b.headers,
                                        {"Content-Type", "Transfer-Encoding"}))
      /\ (~b.explicitNullBody =>
            /\ c.payload = text
            /\ (b.httpVersionMajor = 2 /\ b.status = 404 => c.payload = "404")
            /\ (b.httpVersionMajor = 1 /\ b.status = 404 => c.payload = "Not Found")
            /\ (b.status = 299 => c.payload = "299")
            /\ (b.headersSent => c.headers = b.headers)
            /\ (~b.headersSent =>
                  /\ DOMAIN c.headers =
                       DOMAIN b.headers \cup {"Content-Type", "Content-Length"}
                  /\ c.headers["Content-Type"] = "text/plain; charset=utf-8"
                  /\ c.headers["Content-Length"] = Len(c.payload)
                  /\ \A h \in DOMAIN b.headers \ {"Content-Type", "Content-Length"} :
                       c.headers[h] = b.headers[h]))

C13_Witness ==
  \E r \in Requests :
    /\ NullBodyCase(r)
    /\ before[r].explicitNullBody /\ before[r].headersSent
    /\ DOMAIN before[r].headers = {"Content-Type", "Transfer-Encoding"}
    /\ rq[r].endCalls = 1 /\ rq[r].payload = NULL
    /\ rq[r].headers = <<>>

\* respond reached its body-shape branches
ShapeCase(r) ==
  /\ Responded(r)
  /\ before[r].method # "HEAD" /\ before[r].status \notin StatusesEmpty
  /\ before[r].body.kind # "null"

\* C14 as stated: for a non-null body on a writable non-HEAD response whose
\* status is not 204, 205 or 304, a buffer or a string is passed unchanged to
\* res.end, a stream is piped and res.end is not called, and every other value
\* is ended with its JSON text, Content-Length being set to the text's byte
\* length only when the headers are unsent.
C14_Original ==
  \A r \in Requests :
    LET c == rq[r]
        b == before[r] IN
    ShapeCase(r) =>
      /\ (b.body.kind \in {"buffer", "string"} =>
            /\ c.endCalls = b.endCalls + 1 /\ c.payload = b.body.val /\ ~c.piped
            /\ c.headers = b.headers)
      /\ (b.body.kind = "stream" =>
            c.piped /\ c.endCalls = b.endCalls /\ ~c.ended /\ c.headers = b.headers)
      /\ (b.body.kind \notin {"buffer", "string", "stream"} =>
            /\ c.endCalls = b.endCalls + 1 /\ c.payload # NULL /\ ~c.piped
            /\ (b.headersSent => c.headers = b.headers)
            /\ (~b.headersSent => c.headers = SetLength(b, Len(c.payload)).headers))

\* C14 amended: the same, the last case being every other value that has a
\* JSON text ({a:1} is ended with {"a":1} and Content-Length 7); for a value
\* JSON.stringify rejects respond throws, and neither ends the response nor
\* sets a header.
C14_BodyShapes ==
  \A r \in Requests :
    LET c == rq[r]
        b == before[r] IN
    ShapeCase(r) =>
      /\ c.body = b.body /\ c.status = b.status
      /\ c.respondThrew = (b.body.kind = "circular")
      /\ (b.body.kind \in {"buffer", "string"} =>
            /\ c.endCalls = b.endCalls + 1 /\ c.payload = b.body.val /\ ~c.piped
            /\ c.headers = b.headers)
      /\ (b.body.kind = "stream" =>
            c.piped /\ c.endCalls = b.endCalls /\ ~c.ended /\ c.headers = b.headers)
      /\ (b.body.kind = "object" =>
            /\ c.endCalls = b.endCalls + 1 /\ ~c.piped
            /\ (b.body = ObjBody(<< <<"a", 1>> >>) => c.payload = "{\"a\":1}")
            /\ (b.headersSent => c.headers = b.headers)
            /\ (~b.headersSent =>
                  /\ c.headers = SetLength(b, Len(c.payload)).headers
                  /\ (b.body = ObjBody(<< <<"a", 1>> >>) =>
                        c.headers["Content-Length"] = 7)))
      /\ (b.body.kind = "circular" =>
            c.endCalls = b.endCalls /\ ~c.ended /\ ~c.piped /\ c.headers = b.headers)

C14_Witness ==
  \E r \in Requests :
    /\ ShapeCase(r)
    /\ before[r].body = ObjBody(<< <<"a", 1>> >>) /\ ~before[r].headersSent
    /\ before[r].headers = [x \in {"Content-Length"} |-> 5]
    /\ rq[r].endCalls = 1 /\ rq[r].payload = "{\"a\":1}"
    /\ rq[r].headers = [x \in {"Content-Length"} |-> 7]

\* the calls of Application.onerror made so far
Reports == {i \in DOMAIN calls : calls[i].op = "onerror"}
\* the value is an Error: an instance of Error, of this realm or another
IsError(v) == v.instanceOfError \/ v.brand = "[object Error]"
\* the reporter has something to print for the error
Reportable(k) == k.arg.status # 404 /\ ~k.arg.expose /\ ~k.silent
RECURSIVE WroteSum(_)
WroteSum(cs) == IF cs = <<>> THEN 0 ELSE cs[1].wrote + WroteSum(Tail(cs))

\* C15 as stated: for every Error, Application.onerror returns without
\* throwing, and writes to console.error once exactly when the status is not
\* 404, expose is falsy and the application is not silent, and not at all
\* otherwise.
C15_Original ==
  \A i \in Reports :
    LET k == calls[i] IN
    IsError(k.arg) =>
      /\ k.result = "returned"
      /\ k.wrote = (IF Reportable(k) THEN 1 ELSE 0)

\* what lines 321-322 take for msg, and whether it can be printed: a string,
\* or a String object
MsgOf(v) == IF v.stack.kind # "none" THEN v.stack ELSE v.toString
Printable(v) == MsgOf(v).kind \in {"text", "boxed"}

\* C15 amended: for every Error whose err.stack || err.toString() is a
\* string or a String object, Application.onerror returns without throwing,
\* and writes to console.error once exactly when the status is not 404,
\* expose is falsy and the application is not silent; for every Error with
\* status 404, with expose, or on a silent application it returns and writes
\* nothing, whatever its stack and toString; for the other Errors (a falsy
\* stack with no callable toString, or a message with no replace method) it
\* throws a TypeError and writes nothing.  What console.error holds is what
\* the calls wrote, in order.
C15_ReportsOnce ==
  /\ Len(stderr) = WroteSum(calls)
  /\ \A i \in Reports :
       LET k == calls[i] IN
       IsError(k.arg) =>
         /\ (Printable(k.arg) =>
               /\ k.result = "returned"
               /\ k.wrote = (IF Reportable(k) THEN 1 ELSE 0))
         /\ (~Reportable(k) => k.wrote = 0 /\ k.result = "returned")
         /\ (Reportable(k) /\ ~Printable(k.arg) =>
               /\ k.wrote = 0
               /\ k.result = (IF MsgOf(k.arg).kind = "none"
                              THEN ToStringNotAFunction ELSE NotAFunction))
         /\ (k.arg.status = 404 => k.wrote = 0 /\ k.result = "returned")

C15_Witness ==
  /\ Len(calls) = 2
  /\ calls[1].arg = ErrorValue("[object Error]", TRUE, 404, FALSE, OtherStack)
  /\ ~calls[1].silent /\ calls[1].wrote = 0 /\ calls[1].result = "returned"
  /\ calls[2].arg = ErrorValue("[object Error]", TRUE, 500, FALSE, BoxedStack)
  /\ ~calls[2].silent /\ calls[2].wrote = 1 /\ calls[2].result = "returned"
  /\ stderr = << <<"", "  Error: boxed", "">> >>

\* C16: for every value that is not an Error, whatever its status and expose
\* fields and whether the application is silent or not, Application.onerror
\* throws the non-error TypeError and writes nothing to console.error.
C16_NonErrorThrows ==
  \A i \in Reports :
    LET k == calls[i] IN
    ~IsError(k.arg) => k.result = NonErrorThrown /\ k.wrote = 0

C16_Witness ==
  /\ Len(calls) = 2
  /\ calls[1].arg = ErrorValue("[object Object]", FALSE, 404, TRUE, NoStack)
  /\ calls[1].silent /\ calls[1].result = NonErrorThrown
  /\ calls[2].arg = ErrorValue("[object String]", FALSE, 0, FALSE, NoStack)
  /\ ~calls[2].silent /\ calls[2].result = NonErrorThrown
  /\ stderr = <<>>

\* the entries the accepted calls of a call log leave in the list, each call
\* entering what stored(fn) gives
IsFunction(v) == v.kind \in {"function", "generator"}
RECURSIVE AcceptedArguments(_)
AcceptedArguments(cs) ==
  IF cs = <<>> THEN <<>>
  ELSE (IF cs[1].result = "this" THEN <<cs[1].arg>> ELSE <<>>)
       \o AcceptedArguments(Tail(cs))
RECURSIVE StoredEntries(_)
StoredEntries(cs) ==
  IF cs = <<>> THEN <<>>
  ELSE (IF cs[1].result = "this"
        THEN <<IF cs[1].arg.kind = "generator" THEN convert(cs[1].arg) ELSE cs[1].arg>>
        ELSE <<>>)
       \o StoredEntries(Tail(cs))
\* a call of use returns the application for a function and throws otherwise
UseOutcomes ==
  \A i \in DOMAIN calls :
    calls[i].result = (IF IsFunction(calls[i].arg) THEN "this"
                       ELSE MiddlewareMustBeFunction)
\* a step keeps the entries there are, in place, and adds one at most
AppendOnly ==
  /\ Len(middleware') \in {Len(middleware), Len(middleware) + 1}
  /\ \A i \in DOMAIN middleware : middleware'[i] = middleware[i]

\* C17 as stated: after any sequence of use() calls the list is the accepted
\* arguments in call order; a call with a function returns the application, a
\* call with anything else throws a TypeError and leaves the list as it was;
\* no call reorders or removes an entry.
C17_Original ==
  /\ [](UseOutcomes /\ middleware = AcceptedArguments(calls))
  /\ [][AppendOnly]_vars

\* C17 amended: the same, the entry of an accepted generator function being
\* the function koa-convert makes of it and not the argument itself.
C17_AppendOnly ==
  /\ [](UseOutcomes /\ middleware = StoredEntries(calls))
  /\ [][/\ AppendOnly
        /\ (calls' # calls /\ calls'[Len(calls')].result # "this" =>
              middleware' = middleware)
        /\ (calls' # calls /\ calls'[Len(calls')].result = "this" =>
              Len(middleware') = Len(middleware) + 1)]_vars

C17_Witness ==
  /\ Len(calls) = 3
  /\ calls[1].arg = Fn(2) /\ calls[2].arg = NotFn("string") /\ calls[3].arg = Gen(3)
  /\ calls[2].result = MiddlewareMustBeFunction
  /\ middleware = <<Fn(2), convert(Gen(3))>>

\* the objects of one createContext result, and the properties looked at
ObjectsOf(k) == {k.context, k.request, k.response, k.state}
ObservedKeys ==
  {"request", "response", "app", "req", "res", "ctx", "originalUrl", "state", "user"}
\* the step changes the object o and no other
WritesOnly(o) ==
  /\ Len(heap') = Len(heap)
  /\ heap'[o] # heap[o]
  /\ \A x \in DOMAIN heap : x # o => heap'[x] = heap[x]

\* C18: any two results of createContext consist of eight different objects,
\* none of them a template; context.request, context.response, request.ctx,
\* response.ctx, request.response and response.request of a result are that
\* result's own objects; and a step that writes a property of an object of
\* one result changes the value of no property read through an object of the
\* other.
C18_NoSharing ==
  /\ [](/\ \A i \in DOMAIN Created :
             LET k == Created[i] IN
             /\ Cardinality(ObjectsOf(k)) = 4
             /\ ObjectsOf(k) \cap {app.context, app.request, app.response} = {}
             /\ GetProp(heap, k.context, "request") = Ref(k.request)
             /\ GetProp(heap, k.context, "response") = Ref(k.response)
             /\ GetProp(heap, k.context, "state") = Ref(k.state)
             /\ GetProp(heap, k.request, "ctx") = Ref(k.context)
             /\ GetProp(heap, k.response, "ctx") = Ref(k.context)
             /\ GetProp(heap, k.request, "response") = Ref(k.response)
             /\ GetProp(heap, k.response, "request") = Ref(k.request)
        /\ \A i, j \in DOMAIN Created :
             i # j => ObjectsOf(Created[i]) \cap ObjectsOf(Created[j]) = {})
  /\ [][\A i, j \in DOMAIN Created :
          (i # j /\ \E o \in ObjectsOf(Created[i]) : WritesOnly(o)) =>
            \A o2 \in ObjectsOf(Created[j]), p \in ObservedKeys :
              GetProp(heap', o2, p) = GetProp(heap, o2, p)]_vars

C18_Witness ==
  /\ Len(Created) = 2 /\ Written = 2
  /\ GetProp(heap, Created[1].context, "req") = GetProp(heap, Created[2].context, "req")
  /\ GetProp(heap, Created[1].context, "originalUrl") = Val("x")
  /\ GetProp(heap, Created[2].context, "originalUrl") = Val("/a")
  /\ GetProp(heap, Created[1].state, "user") = Val("x")
  /\ GetProp(heap, Created[2].state, "user") = Undefined

\* the step changes the template t and no other object
TemplateStep(t) == WritesOnly(app[t])

\* C19 as stated: a step that adds or changes a property of app.context,
\* app.request or app.response changes the value of no property of a context,
\* request view or response view created before.
C19_Original ==
  [][\A t \in TemplateNames :
       TemplateStep(t) =>
         \A i \in DOMAIN Created : \A o \in ObjectsOf(Created[i]) :
           \A p \in ObservedKeys : GetProp(heap', o, p) = GetProp(heap, o, p)]_vars

\* C19 amended: such a step changes no property that the created object owns
\* (the links, app, req, res, originalUrl, state, and what was written on it
\* since), nor any property of an object that does not derive from that
\* template; for a property the object derived from the template does not
\* own, the object yields the template's value after the step as before it.
C19_TemplateDelegation ==
  [][\A t \in TemplateNames :
       TemplateStep(t) =>
         \A i \in DOMAIN Created : \A view \in Views : \A p \in ObservedKeys :
           LET o == Created[i][view] IN
           IF view # t \/ p \in DOMAIN heap[o].own
           THEN GetProp(heap', o, p) = GetProp(heap, o, p)
           ELSE /\ GetProp(heap, o, p) = GetProp(heap, app[t], p)
                /\ GetProp(heap', o, p) = GetProp(heap', app[t], p)]_vars

C19_Witness ==
  /\ Len(calls) = 3
  /\ calls[1].op = "createContext" /\ calls[2].op = "write" /\ calls[3].op = "write"
  /\ heap[app.context].own = [x \in {"originalUrl", "user"} |-> Val("x")]
  /\ GetProp(heap, Created[1].context, "user") = Val("x")
  /\ "user" \notin DOMAIN heap[Created[1].context].own
  /\ GetProp(heap, Created[1].context, "originalUrl") = Val("/b")

\* how often an event occurs in a log
CountOf(log, ev) == Cardinality({i \in DOMAIN log : log[i] = ev})
\* what a request shows of its response
Outcome(c) ==
  [status |-> c.status, body |-> c.body, headers |-> c.headers,
   payload |-> c.payload, endCalls |-> c.endCalls, piped |-> c.piped]

\* C20: with two requests in flight, every step acts on the context of one
\* request and leaves the other request's context, transport and pipeline as
\* they were; each request's pipeline is started once, on its own context,
\* made for it from its own req and res and sharing no object with the other;
\* respond runs at most once per request and leaves what respond gives on
\* that request's own context; the error handler of a request receives only
\* that request's own pipeline error and its own transport's error; and this
\* holds whatever the other request does, a rejection or transport error
\* included.
C20_RequestsIndependent ==
  /\ [](/\ Len(Created) = Cardinality({r \in Requests : rq[r].started})
        /\ \A i, j \in DOMAIN Created :
             i # j => ObjectsOf(Created[i]) \cap ObjectsOf(Created[j]) = {})
  /\ [](\A r \in Requests :
          LET c == rq[r] IN
          /\ (~c.started => c = NewRequest(Len(middleware), c.method, c.httpVersionMajor))
          /\ (c.started =>
                \E i \in DOMAIN Created :
                  /\ GetProp(heap, Created[i].context, "req") = Val(ConnectionOf(r).req)
                  /\ GetProp(heap, Created[i].context, "res") = Val(ConnectionOf(r).res))
          /\ (c.started =>
                /\ Len(c.log) >= 3
                /\ c.log[1] = "status404" /\ c.log[2] = "onFinished"
                /\ c.log[3] = "fnMiddleware"
                /\ CountOf(c.log, "fnMiddleware") = 1)
          /\ c.respondCalls <= 1 /\ Len(c.chainArgs) <= 1
          /\ (c.chain = "settled" /\ PipelineState(c) = "resolved" =>
                /\ c.respondCalls = 1 /\ c.chainArgs = <<>>
                /\ Outcome(c) = Outcome(respond(before[r]))
                /\ (Writable(before[r]) =>
                      c.payload = (IF c.touched THEN c.body.val ELSE "Not Found")))
          /\ (c.chain = "settled" /\ PipelineState(c) = "rejected" =>
                /\ c.respondCalls = 0
                /\ c.chainArgs = <<PipelineError(c)>>
                /\ \E k \in Frames(c) : c.fr[k].st = "fail" /\ c.fr[k].err = PipelineError(c))
          /\ \A i \in DOMAIN c.onerrorArgs :
               \/ c.onerrorArgs[i] = NULL
               \/ c.onerrorArgs[i] = TransportError /\ c.socket # "open"
               \/ c.chainArgs = <<c.onerrorArgs[i]>>)
  /\ [][/\ middleware' = middleware
        /\ \A r1, r2 \in Requests :
             r1 # r2 =>
               \/ rq'[r1] = rq[r1] /\ before'[r1] = before[r1]
               \/ rq'[r2] = rq[r2] /\ before'[r2] = before[r2]]_vars

C20_Witness ==
  /\ Len(middleware) >= 2
  /\ rq[1].chain = "settled" /\ rq[1].chainArgs = <<"E1">>
  /\ rq[1].socket = "error"
  /\ rq[1].onerrorArgs = <<TransportError, "E1">>
  /\ rq[2].chain = "settled" /\ rq[2].respondCalls = 1
  /\ rq[2].fr[1].post
  /\ rq[2].payload = "yo" /\ rq[2].status = 200 /\ rq[2].finished
  /\ rq[2].onerrorArgs = <<NULL>>
  /\ Len(heap) = Len(NewHeap) + 8

\* how often the default reporter is among the 'error' listeners
DefaultCount(a) ==
  Cardinality({i \in DOMAIN a.errorListeners : a.errorListeners[i] = DefaultReporter})

\* C21: after any sequence of callback() calls and registrations of 'error'
\* listeners by the owner, the default reporter is among the listeners once
\* at most; it is there, and first, exactly when callback() was called before
\* any listener was registered, and absent when a listener was registered
\* first; a callback() call adds it when there is no listener and changes
\* nothing otherwise, and no call removes or reorders a listener.
C21_DefaultReporterOnce ==
  /\ [](/\ DefaultCount(app) <= 1
        /\ Len(app.errorListeners) <= Len(calls)
        /\ (calls # <<>> /\ calls[1].op = "callback" =>
              DefaultCount(app) = 1 /\ app.errorListeners[1] = DefaultReporter)
        /\ (calls # <<>> /\ calls[1].op = "on" => DefaultCount(app) = 0)
        /\ (calls # <<>> => app.errorListeners # <<>>))
  /\ [][/\ \A i \in DOMAIN app.errorListeners :
             /\ i \in DOMAIN app'.errorListeners
             /\ app'.errorListeners[i] = app.errorListeners[i]
        /\ (calls' # calls /\ calls'[Len(calls')].op = "callback" =>
              app'.errorListeners =
                (IF app.errorListeners = <<>> THEN <<DefaultReporter>>
                 ELSE app.errorListeners))]_vars

C21_Witness ==
  /\ Len(calls) = 4
  /\ calls[1].op = "callback" /\ calls[2].op = "callback"
  /\ calls[3].op = "on" /\ calls[4].op = "callback"
  /\ app.errorListeners = <<DefaultReporter, "logErrors">>

====
